---- MODULE Spec2Model ----
(***************************************************************************)
(* Authentication / session-refresh flow of the admin dashboard client:    *)
(*   - ApiService (src/src/services/api.js): request(), the 401 refresh    *)
(*     protocol with isRefreshing + failedQueue, processQueue();           *)
(*   - useAuthStore (src/unnamed/part_001): login, signup, logout,         *)
(*     refreshAuth, getCurrentUser, checkAuth, initializeAuth, setUser.    *)
(*                                                                         *)
(* Execution model: the JavaScript event loop.  A network reply is a       *)
(* macrotask and is taken only when the microtask queue (jobs) is empty;   *)
(* promise continuations are microtasks and run in FIFO order.             *)
(***************************************************************************)
EXTENDS Integers, Sequences, FiniteSets, TLC

(* ------------------------------ bounds -------------------------------- *)
\* number of top-level calls (page requests and store operations) of one run
MaxTask == 2
\* number of page requests of one run of the HTTP client alone
MaxReq == 3
\* number of access tokens the model tells apart: the backend issues them in turn
MaxToken == 2
\* number of phrases in one backend error message
MaxPhrases == 2

(* ----------------------------- endpoints ------------------------------ *)
LoginEp == "/users/login"
RegisterEp == "/users/register"
LogoutEp == "/users/logout"
RefreshEp == "/users/refresh-token"
MeEp == "/users/me"
\* any of the CRUD endpoints; none of them contains "/login" or "/refresh-token"
ProductsEp == "/products/allProducts"

(* ------------------------------ values -------------------------------- *)
\* messages are sequences of phrases; <<>> is the absent (falsy) message
NoMessage == <<>>
InvalidCredentials == <<"Invalid user credentials">>
Unauthorized == <<"Unauthorized request">>
\* the message of a 401 reply: the login and refresh endpoints answer with or
\* without one, the other endpoints with the backend's standard one
Messages401(endpoint) ==
    IF endpoint \in {LoginEp, RefreshEp}
    THEN {NoMessage, InvalidCredentials} ELSE {Unauthorized}

NoBackendUser == [_id |-> "", role |-> ""]
BackendUsers == {[_id |-> "u1", role |-> "admin"], [_id |-> "u1", role |-> ""]}

\* session.user: null
NullUser == [id |-> "", role |-> ""]

NoError == [ep |-> "", at |-> "", msg |-> NoMessage]
NoResult == [ok |-> FALSE, usr |-> NoBackendUser, tok |-> 0, err |-> NoError]
NoReply == [st |-> -1, msg |-> NoMessage, usr |-> NoBackendUser, hasTok |-> FALSE]

\* the reply of the backend to one fetch; st = 0 is a network-level failure
\* (fetch rejects), hasTok says whether data.accessToken is in the body
Replies(endpoint) ==
    {[st |-> 0, msg |-> NoMessage, usr |-> NoBackendUser, hasTok |-> FALSE]}
    \cup {[st |-> 200, msg |-> NoMessage, usr |-> u, hasTok |-> h] :
            u \in (IF endpoint \in {LoginEp, MeEp}
                   THEN BackendUsers \cup {NoBackendUser} ELSE {NoBackendUser}),
            h \in (IF endpoint \in {LoginEp, RefreshEp} THEN BOOLEAN ELSE {FALSE})}
    \cup {[st |-> 401, msg |-> m, usr |-> NoBackendUser, hasTok |-> FALSE] :
            m \in Messages401(endpoint)}
    \cup {[st |-> 500, msg |-> NoMessage, usr |-> NoBackendUser, hasTok |-> FALSE]}

VARIABLES
    authToken,        \* localStorage "authToken"; 0 is "no entry"
    isRefreshing,     \* ApiService.isRefreshing
    failedQueue,      \* ApiService.failedQueue: the tasks whose {resolve, reject} wait
    user,             \* useAuthStore.user
    isAuthenticated,  \* useAuthStore.isAuthenticated
    isLoading,        \* useAuthStore.isLoading
    href,             \* number of assignments window.location.href = "/login"
    req,              \* per task: its request() invocation
    op,               \* per task: the top-level call it runs
    jobs,             \* microtask queue: tasks whose continuation is ready
    issued,           \* backend: the last access token it issued
    window,           \* history: the last refresh started by request()
    lateArrival,      \* history: a 401 arrived after the last refresh block was left
    gate              \* the ProtectedRoute element: isChecking, the dependencies
                      \* of its last effect run, whether it has redirected

vars == <<authToken, isRefreshing, failedQueue, user, isAuthenticated, isLoading,
          href, req, op, jobs, issued, window, lateArrival, gate>>

session == <<user, isAuthenticated, isLoading>>
coordinator == <<isRefreshing, failedQueue, window, lateArrival>>
Task == DOMAIN op

(* ------------------------- ApiService.request ------------------------- *)
GenericMessage(st) ==
    IF st = 401 THEN <<"HTTP error! status: 401">> ELSE <<"HTTP error! status: 500">>

\* errorData.message || `HTTP error! status: ${response.status}`
ErrorMessage(msg, st) == IF msg # NoMessage THEN msg ELSE GenericMessage(st)

\* fetch() itself rejected
FetchError(endpoint) == [ep |-> endpoint, at |-> "fetch", msg |-> <<"Failed to fetch">>]

HttpError(endpoint, site, msg, st) ==
    [ep |-> endpoint, at |-> site, msg |-> ErrorMessage(msg, st)]

Failure(error) == [ok |-> FALSE, usr |-> NoBackendUser, tok |-> 0, err |-> error]

\* response.json() of a 2xx reply; tok is the access token the backend issued
Body(reply, tok) == [ok |-> TRUE, usr |-> reply.usr, tok |-> tok, err |-> NoError]

\* mutant of EntersRefreshProtocol: the login endpoint is not exempted
EntersRefreshProtocolOnLogin(endpoint, st) ==
    /\ st = 401
    /\ endpoint # RefreshEp

\* the 401 test of request(): status 401 on an endpoint that is neither the
\* refresh endpoint nor the login endpoint
EntersRefreshProtocol(endpoint, st) ==
    /\ st = 401
    /\ endpoint # RefreshEp
    /\ endpoint # LoginEp

\* outcome of one request() whose reply does not enter the refresh protocol
PlainOutcome(endpoint, reply, tok) ==
    IF reply.st = 0 THEN Failure(FetchError(endpoint))
    ELSE IF reply.st = 200 THEN Body(reply, tok)
    ELSE Failure(HttpError(endpoint, "L114", reply.msg, reply.st))

\* the request record of a call request(endpoint) made while the stored token is tok
NewRequest(endpoint, tok) ==
    [ep |-> endpoint, pc |-> "fetch", bearer |-> tok, reply |-> NoReply,
     refreshReply |-> NoReply, refreshRes |-> NoResult, given |-> 0,
     res |-> NoResult]

NoRequest ==
    [ep |-> "", pc |-> "none", bearer |-> 0, reply |-> NoReply,
     refreshReply |-> NoReply, refreshRes |-> NoResult, given |-> 0,
     res |-> NoResult]

Settled(r, result) == [r EXCEPT !.pc = "settled", !.res = result]

InQueue(t) == \E i \in 1..Len(failedQueue) : failedQueue[i] = t

\* processQueue(error, token) on the request records rq: every queued
\* continuation is rejected with error when error is set, resolved with token
\* otherwise
processQueue(rq, error, token) ==
    [u \in DOMAIN rq |->
        IF InQueue(u)
        THEN IF error # NoError
             THEN [rq[u] EXCEPT !.pc = "rejected", !.res = Failure(error)]
             ELSE [rq[u] EXCEPT !.pc = "resolved", !.given = token]
        ELSE rq[u]]

\* the record of the refresh that request() started last: id counts the calls
\* of this.refreshToken() made by request(), queued and resent log the tasks
\* queued while it was open and the re-sends (task, bearer) it caused
NoWindow ==
    [id |-> 0, owner |-> 0, outcome |-> "none", tok |-> 0, open |-> FALSE,
     queued |-> <<>>, resent |-> <<>>]

CloseWindow(w, outcome) == [w EXCEPT !.open = FALSE, !.outcome = outcome]

\* the token carried by a 2xx reply to the login or refresh endpoint: the one
\* after the last the backend issued
NextToken(reply) ==
    IF reply.st = 200 /\ reply.hasTok THEN (issued % MaxToken) + 1 ELSE 0

Issue(reply) ==
    issued' = IF reply.st = 200 /\ reply.hasTok THEN (issued % MaxToken) + 1 ELSE issued

\* mutant of StartsRefresh: the isRefreshing test is lost
StartsRefreshAlways(refreshing) == TRUE

\* if (!this.isRefreshing): the request that meets the coordinator Idle starts
\* the refresh, any other is queued
StartsRefresh(refreshing) == ~refreshing

\* request(): the reply to the first fetch arrives
FetchResponse(t, reply) ==
    /\ jobs = <<>>
    /\ req[t].pc = "fetch"
    /\ Issue(reply)
    /\ IF EntersRefreshProtocol(req[t].ep, reply.st)
       THEN IF StartsRefresh(isRefreshing)
            THEN \* the request owns the refresh: this.refreshToken() is called
                 /\ isRefreshing' = TRUE
                 /\ req' = [req EXCEPT ![t] = [@ EXCEPT !.pc = "refreshing",
                                                        !.reply = reply]]
                 /\ window' = [id |-> window.id + 1, owner |-> t,
                               outcome |-> "pending", tok |-> 0, open |-> TRUE,
                               queued |-> <<>>, resent |-> <<>>]
                 /\ lateArrival' = (lateArrival \/ (window.id > 0 /\ ~window.open))
                 /\ UNCHANGED <<failedQueue, jobs>>
            ELSE \* a refresh is in flight: queue the continuation
                 /\ failedQueue' = Append(failedQueue, t)
                 /\ req' = [req EXCEPT ![t] = [@ EXCEPT !.pc = "queued",
                                                        !.reply = reply]]
                 /\ window' = [window EXCEPT !.queued = Append(@, t)]
                 /\ lateArrival' = (lateArrival \/ (window.id > 0 /\ ~window.open))
                 /\ UNCHANGED <<isRefreshing, jobs>>
       ELSE /\ req' = [req EXCEPT ![t] =
                         Settled([@ EXCEPT !.reply = reply],
                                 PlainOutcome(req[t].ep, reply, NextToken(reply)))]
            /\ jobs' = Append(jobs, t)
            /\ UNCHANGED coordinator
    /\ UNCHANGED <<gate, authToken, session, href, op>>

\* the nested request("/users/refresh-token") of the owner settles
RefreshResponse(t, reply) ==
    /\ jobs = <<>>
    /\ req[t].pc = "refreshing"
    /\ Issue(reply)
    /\ IF EntersRefreshProtocol(RefreshEp, reply.st)
       THEN \* isRefreshing is true: the nested call would queue itself
            /\ req' = [req EXCEPT ![t] = [@ EXCEPT !.pc = "queued",
                                                   !.refreshReply = reply]]
            /\ failedQueue' = Append(failedQueue, t)
            /\ UNCHANGED <<jobs, isRefreshing, window, lateArrival>>
       ELSE /\ req' = [req EXCEPT ![t] =
                         [@ EXCEPT !.pc = "refreshed",
                                   !.refreshReply = reply,
                                   !.refreshRes =
                                       PlainOutcome(RefreshEp, reply, NextToken(reply))]]
            /\ jobs' = Append(jobs, t)
            /\ UNCHANGED coordinator
    /\ UNCHANGED <<gate, authToken, session, href, op>>

\* mutant of CatchRefreshError: the queue is processed without the error
CatchRefreshErrorResolving(t, error) ==
    /\ req' = [processQueue(req, NoError, 0) EXCEPT ![t] = Settled(req[t], Failure(error))]
    /\ failedQueue' = <<>>
    /\ authToken' = 0
    /\ href' = href + 1
    /\ isRefreshing' = FALSE

\* catch (refreshError) { ... } finally { isRefreshing = false } of the owner t
CatchRefreshError(t, error) ==
    /\ req' = [processQueue(req, error, 0) EXCEPT ![t] = Settled(req[t], Failure(error))]
    /\ failedQueue' = <<>>
    /\ authToken' = 0
    /\ href' = href + 1
    /\ isRefreshing' = FALSE

\* the owner resumes after await this.refreshToken()
AfterRefresh(t) ==
    /\ jobs # <<>> /\ Head(jobs) = t
    /\ req[t].pc = "refreshed"
    /\ IF req[t].refreshRes.ok
       THEN IF req[t].refreshRes.tok # 0
            THEN \* new token: persist, processQueue(null, token), retry
                 /\ authToken' = req[t].refreshRes.tok
                 /\ req' = [processQueue(req, NoError, req[t].refreshRes.tok)
                              EXCEPT ![t] = [req[t] EXCEPT !.pc = "retry",
                                                !.bearer = req[t].refreshRes.tok]]
                 /\ jobs' = Tail(jobs) \o failedQueue
                 /\ failedQueue' = <<>>
                 /\ window' = [window EXCEPT !.outcome = "token",
                                  !.tok = req[t].refreshRes.tok,
                                  !.resent = Append(@, <<t, req[t].refreshRes.tok>>)]
                 /\ UNCHANGED <<isRefreshing, href>>
            ELSE \* a reply without access token: only the finally block runs,
                 \* then the throw that follows the 401 test
                 /\ isRefreshing' = FALSE
                 /\ req' = [req EXCEPT ![t] =
                              Settled(@, Failure(HttpError(req[t].ep, "L114",
                                                           req[t].reply.msg,
                                                           req[t].reply.st)))]
                 /\ jobs' = Append(Tail(jobs), t)
                 /\ window' = CloseWindow(window, "notoken")
                 /\ UNCHANGED <<authToken, failedQueue, href>>
       ELSE /\ CatchRefreshError(t, req[t].refreshRes.err)
            /\ jobs' = (Tail(jobs) \o failedQueue) \o <<t>>
            /\ window' = CloseWindow(window, "error")
    /\ UNCHANGED <<gate, session, op, issued, lateArrival>>

\* the reply to the owner's retry of the original request arrives
RetryResponse(t, reply) ==
    /\ jobs = <<>>
    /\ req[t].pc = "retry"
    /\ IF reply.st = 200
       THEN /\ req' = [req EXCEPT ![t] = Settled(@, Body(reply, 0))]
            /\ isRefreshing' = FALSE
            /\ jobs' = Append(jobs, t)
            /\ UNCHANGED <<authToken, failedQueue, href>>
       ELSE /\ CatchRefreshError(t, IF reply.st = 0 THEN FetchError(req[t].ep)
                                    ELSE HttpError(req[t].ep, "L73", reply.msg, reply.st))
            /\ jobs' = (jobs \o failedQueue) \o <<t>>
    /\ window' = [window EXCEPT !.open = FALSE]
    /\ UNCHANGED <<gate, session, op, issued, lateArrival>>

\* .then((token) => fetch(url, config)) of a queued request
QueuedResolved(t) ==
    /\ jobs # <<>> /\ Head(jobs) = t
    /\ req[t].pc = "resolved"
    /\ req' = [req EXCEPT ![t] = [@ EXCEPT !.pc = "qfetch", !.bearer = req[t].given]]
    /\ jobs' = Tail(jobs)
    /\ window' = [window EXCEPT !.resent = Append(@, <<t, req[t].given>>)]
    /\ UNCHANGED <<gate, authToken, session, href, op, issued, isRefreshing, failedQueue,
                   lateArrival>>

\* .catch((err) => { throw err }) of a queued request
QueuedRejected(t) ==
    /\ jobs # <<>> /\ Head(jobs) = t
    /\ req[t].pc = "rejected"
    /\ req' = [req EXCEPT ![t] = Settled(@, req[t].res)]
    /\ jobs' = Append(Tail(jobs), t)
    /\ UNCHANGED <<gate, authToken, session, href, op, issued, coordinator>>

\* mutant of QueuedResponse: a failed re-send is handled as a refresh failure
QueuedResponseAsRefreshFailure(t, reply) ==
    /\ jobs = <<>>
    /\ req[t].pc = "qfetch"
    /\ IF reply.st = 200
       THEN /\ req' = [req EXCEPT ![t] = Settled(@, Body(reply, 0))]
            /\ UNCHANGED <<authToken, href>>
       ELSE /\ req' = [req EXCEPT ![t] =
                         Settled(@, Failure(HttpError(req[t].ep, "L100", NoMessage,
                                                      reply.st)))]
            /\ authToken' = 0
            /\ href' = href + 1
    /\ jobs' = Append(jobs, t)
    /\ UNCHANGED <<gate, session, op, issued, coordinator>>

\* the reply to the re-sent queued request arrives; errorData is a pending
\* promise there, so its message is never used
QueuedResponse(t, reply) ==
    /\ jobs = <<>>
    /\ req[t].pc = "qfetch"
    /\ req' = [req EXCEPT ![t] =
                 Settled(@, IF reply.st = 0 THEN Failure(FetchError(req[t].ep))
                            ELSE IF reply.st = 200 THEN Body(reply, 0)
                            ELSE Failure(HttpError(req[t].ep, "L100", NoMessage, reply.st)))]
    /\ jobs' = Append(jobs, t)
    /\ UNCHANGED <<gate, authToken, session, href, op, issued, coordinator>>

(* --------------------------- ProtectedRoute --------------------------- *)
\* useState(true) for isChecking; the effect has not run yet
NewGate == [isChecking |-> TRUE, deps |-> <<>>, left |-> FALSE]

\* what the guard renders from the store's flags and its own isChecking
View(authenticated, loading, checking) ==
    IF loading \/ checking THEN "placeholder"
    ELSE IF ~authenticated THEN "login"
    ELSE "children"

(* ------------------------------ callers ------------------------------- *)
NoReturn == [success |-> FALSE, error |-> NoMessage, threw |-> FALSE]

\* return {success, error}: the call completes with a result value
Returned(success, error) == [success |-> success, error |-> error, threw |-> FALSE]

\* fetched records whether the call has made a network call
Idle == [kind |-> "idle", pc |-> "", ret |-> NoReturn, fetched |-> FALSE]

\* tasks are interchangeable: they are started in the order of their numbers
MayStart(t) ==
    /\ jobs = <<>>
    /\ op[t].kind = "idle"
    /\ t > 1 => op[t - 1].kind # "idle"

\* the continuation of task t, of kind k at position pc, is the next microtask
Resumes(t, k, pc) ==
    /\ jobs # <<>> /\ Head(jobs) = t
    /\ req[t].pc = "settled"
    /\ op[t].kind = k
    /\ op[t].pc = pc

Call(t, k, pc, endpoint, tok) ==
    /\ op' = [op EXCEPT ![t] = [kind |-> k, pc |-> pc, ret |-> NoReturn,
                                fetched |-> TRUE]]
    /\ req' = [req EXCEPT ![t] = NewRequest(endpoint, tok)]

Return(t, ret) ==
    /\ op' = [op EXCEPT ![t] = [@ EXCEPT !.pc = "done", !.ret = ret]]
    /\ req' = [req EXCEPT ![t] = NoRequest]

\* a call that passes on what its request did: it returns the body or throws
\* the error
Outcome(res) == [success |-> res.ok, error |-> NoMessage, threw |-> ~res.ok]

\* a page calls one of the CRUD methods of apiService
StartRequest(t) ==
    /\ MayStart(t)
    /\ Call(t, "request", "call", ProductsEp, authToken)
    /\ UNCHANGED <<gate, authToken, session, href, jobs, issued, coordinator>>

\* the page's call returns or throws
RequestDone(t) ==
    /\ Resumes(t, "request", "call")
    /\ Return(t, Outcome(req[t].res))
    /\ jobs' = Tail(jobs)
    /\ UNCHANGED <<gate, authToken, session, href, issued, coordinator>>

(* ---------------------------- useAuthStore --------------------------- *)
\* error.message.includes(phrase)
Includes(msg, phrase) == \E i \in 1..Len(msg) : msg[i] = phrase

\* mutant of Project: the role is taken as it comes
ProjectRaw(u) == [id |-> u._id, role |-> u.role]

\* the projection of a backend user record to the session's user
Project(u) == [id |-> u._id, role |-> IF u.role # "" THEN u.role ELSE "user"]

\* the message of the error that reaches the catch block of a store operation
\* whose request settled with res; thrown is the message of the operation's
\* own throw for a reply it does not accept
Caught(res, thrown) == IF res.ok THEN thrown ELSE res.err.msg

\* mutant of LoginErrorMessage: the first two tests change places
LoginErrorMessageReordered(msg) ==
    IF Includes(msg, "Invalid user credentials")
    THEN <<"Invalid username or password.">>
    ELSE IF Includes(msg, "User does not exist")
    THEN <<"User not found. Please check your credentials.">>
    ELSE IF Includes(msg, "Account is deactivated")
    THEN <<"Your account has been deactivated. Please contact admin.">>
    ELSE IF Includes(msg, "Too many requests")
    THEN <<"Too many login attempts. Please try again later.">>
    ELSE msg

\* login: the user-facing message for the caught error
LoginErrorMessage(msg) ==
    IF Includes(msg, "User does not exist")
    THEN <<"User not found. Please check your credentials.">>
    ELSE IF Includes(msg, "Invalid user credentials")
    THEN <<"Invalid username or password.">>
    ELSE IF Includes(msg, "Account is deactivated")
    THEN <<"Your account has been deactivated. Please contact admin.">>
    ELSE IF Includes(msg, "Too many requests")
    THEN <<"Too many login attempts. Please try again later.">>
    ELSE msg

\* signup: the user-facing message for the caught error
SignupErrorMessage(msg) ==
    IF Includes(msg, "Username can only contain letters, numbers, and underscores")
    THEN <<"Username can only contain letters, numbers, and underscores.">>
    ELSE IF Includes(msg, "User with this email or username already exists")
    THEN <<"An account with this email or username already exists.">>
    ELSE IF Includes(msg, "Password must be at least")
    THEN <<"Password must be at least 6 characters long.">>
    ELSE IF Includes(msg, "Invalid email")
    THEN <<"Please enter a valid email address.">>
    ELSE IF Includes(msg, "Full name is required")
    THEN <<"Please enter your full name.">>
    ELSE msg

StartLogin(t) ==
    /\ MayStart(t)
    /\ isLoading' = TRUE
    /\ Call(t, "login", "call", LoginEp, authToken)
    /\ UNCHANGED <<gate, authToken, user, isAuthenticated, href, jobs, issued, coordinator>>

LoginSettled(t) ==
    /\ Resumes(t, "login", "call")
    /\ IF req[t].res.ok /\ req[t].res.usr # NoBackendUser
       THEN /\ authToken' = IF req[t].res.tok # 0 THEN req[t].res.tok ELSE authToken
            /\ user' = Project(req[t].res.usr)
            /\ isAuthenticated' = TRUE
            /\ Return(t, Returned(TRUE, NoMessage))
       ELSE /\ Return(t, Returned(FALSE, LoginErrorMessage(Caught(req[t].res,
                                                                  <<"Login failed">>))))
            /\ UNCHANGED <<authToken, user, isAuthenticated>>
    /\ isLoading' = FALSE
    /\ jobs' = Tail(jobs)
    /\ UNCHANGED <<gate, href, issued, coordinator>>

StartSignup(t) ==
    /\ MayStart(t)
    /\ isLoading' = TRUE
    /\ Call(t, "signup", "call", RegisterEp, authToken)
    /\ UNCHANGED <<gate, authToken, user, isAuthenticated, href, jobs, issued, coordinator>>

SignupSettled(t) ==
    /\ Resumes(t, "signup", "call")
    /\ isLoading' = FALSE
    /\ Return(t, Returned(req[t].res.ok,
                           IF req[t].res.ok THEN NoMessage
                           ELSE SignupErrorMessage(req[t].res.err.msg)))
    /\ jobs' = Tail(jobs)
    /\ UNCHANGED <<gate, authToken, user, isAuthenticated, href, issued, coordinator>>

StartLogout(t) ==
    /\ MayStart(t)
    /\ Call(t, "logout", "call", LogoutEp, authToken)
    /\ UNCHANGED <<gate, authToken, session, href, jobs, issued, coordinator>>

\* mutant of LogoutCleanup: the cleanup sits in the try block, after the call
LogoutCleanupInTry(res) ==
    IF res.ok
    THEN /\ authToken' = 0
         /\ user' = NullUser
         /\ isAuthenticated' = FALSE
    ELSE UNCHANGED <<authToken, user, isAuthenticated>>

\* logout: finally { localStorage.removeItem("authToken"); set({...}) }
LogoutCleanup(res) ==
    /\ authToken' = 0
    /\ user' = NullUser
    /\ isAuthenticated' = FALSE

\* mutant of Logged: the catch block is missing, the error goes on to the caller
LoggedRethrown(res) == [success |-> res.ok, error |-> NoMessage, threw |-> ~res.ok]

\* logout: catch (error) { console.error(...) }: the error of the backend call
\* is logged and goes no further; success records whether the call succeeded
Logged(res) == [success |-> res.ok, error |-> NoMessage, threw |-> FALSE]

LogoutSettled(t) ==
    /\ Resumes(t, "logout", "call")
    /\ LogoutCleanup(req[t].res)
    /\ Return(t, Logged(req[t].res))
    /\ jobs' = Tail(jobs)
    /\ UNCHANGED <<gate, isLoading, href, issued, coordinator>>

\* refreshAuth: {success: true} exactly when the reply carries an access token
RefreshAuthSucceeds(res) == res.ok /\ res.tok # 0

\* refreshAuth: what it does to the token and the session
RefreshAuthEffect(res) ==
    IF RefreshAuthSucceeds(res)
    THEN /\ authToken' = res.tok
         /\ UNCHANGED <<user, isAuthenticated>>
    ELSE IF res.ok
    THEN UNCHANGED <<authToken, user, isAuthenticated>>
    ELSE /\ authToken' = 0
         /\ user' = NullUser
         /\ isAuthenticated' = FALSE

StartRefreshAuth(t) ==
    /\ MayStart(t)
    /\ Call(t, "refreshAuth", "call", RefreshEp, authToken)
    /\ UNCHANGED <<gate, authToken, session, href, jobs, issued, coordinator>>

RefreshAuthSettled(t) ==
    /\ Resumes(t, "refreshAuth", "call")
    /\ RefreshAuthEffect(req[t].res)
    /\ Return(t, Returned(RefreshAuthSucceeds(req[t].res), NoMessage))
    /\ jobs' = Tail(jobs)
    /\ UNCHANGED <<gate, isLoading, href, issued, coordinator>>

\* getCurrentUser: {success: true} exactly when the reply carries a user
GetCurrentUserSucceeds(res) == res.ok /\ res.usr # NoBackendUser

\* mutant of GetCurrentUserEffect: a failure resets the session
GetCurrentUserEffectResetting(res) ==
    IF GetCurrentUserSucceeds(res)
    THEN /\ user' = Project(res.usr)
         /\ isAuthenticated' = TRUE
    ELSE /\ user' = NullUser
         /\ isAuthenticated' = FALSE

\* getCurrentUser: what it does to the session
GetCurrentUserEffect(res) ==
    IF GetCurrentUserSucceeds(res)
    THEN /\ user' = Project(res.usr)
         /\ isAuthenticated' = TRUE
    ELSE UNCHANGED <<user, isAuthenticated>>

StartGetCurrentUser(t) ==
    /\ MayStart(t)
    /\ Call(t, "getCurrentUser", "call", MeEp, authToken)
    /\ UNCHANGED <<gate, authToken, session, href, jobs, issued, coordinator>>

GetCurrentUserSettled(t) ==
    /\ Resumes(t, "getCurrentUser", "call")
    /\ GetCurrentUserEffect(req[t].res)
    /\ Return(t, Returned(GetCurrentUserSucceeds(req[t].res), NoMessage))
    /\ jobs' = Tail(jobs)
    /\ UNCHANGED <<gate, authToken, isLoading, href, issued, coordinator>>

\* the callers of checkAuth(): a page, initializeAuth and the route guard's effect
CheckKinds == {"checkAuth", "initializeAuth", "verifyAuth"}

\* checkAuth() returns {isAuthenticated: b} to task t: a checkAuth task is done,
\* initializeAuth goes on with getCurrentUser() when b, with its finally block otherwise
CheckAuthReturns(t, b) ==
    IF op[t].kind \in {"checkAuth", "verifyAuth"}
    THEN /\ Return(t, Returned(b, NoMessage))
         /\ UNCHANGED isLoading
    ELSE IF b
    THEN /\ Call(t, "initializeAuth", "user", MeEp, authToken')
         /\ UNCHANGED isLoading
    ELSE /\ Return(t, Returned(b, NoMessage))
         /\ isLoading' = FALSE

\* verifyAuth of the route guard: setIsChecking(false) follows the awaited
\* checkAuth()
SetIsChecking(t) ==
    gate' = IF op[t].kind = "verifyAuth" /\ op'[t].pc = "done"
            THEN [gate EXCEPT !.isChecking = FALSE] ELSE gate

\* mutant of StartCheckAuth: the token test is lost
StartCheckAuthUnguarded(t) ==
    /\ MayStart(t)
    /\ Call(t, "checkAuth", "me1", MeEp, authToken)
    /\ UNCHANGED <<gate, authToken, session, href, jobs, issued, coordinator>>

\* checkAuth with no token returns at once, without a network call
StartCheckAuth(t) ==
    /\ MayStart(t)
    /\ IF authToken = 0
       THEN op' = [op EXCEPT ![t] = [kind |-> "checkAuth", pc |-> "done",
                                          ret |-> Returned(FALSE, NoMessage),
                                          fetched |-> FALSE]]
            /\ UNCHANGED req
       ELSE Call(t, "checkAuth", "me1", MeEp, authToken)
    /\ UNCHANGED <<gate, authToken, session, href, jobs, issued, coordinator>>

\* initializeAuth: set({isLoading: true}), then checkAuth()
StartInitializeAuth(t) ==
    /\ MayStart(t)
    /\ isLoading' = TRUE
    /\ IF authToken = 0
       THEN /\ op' = [op EXCEPT ![t] =
                        [kind |-> "initializeAuth", pc |-> "finally", ret |-> NoReturn,
                         fetched |-> FALSE]]
            /\ jobs' = Append(jobs, t)
            /\ UNCHANGED req
       ELSE /\ Call(t, "initializeAuth", "me1", MeEp, authToken)
            /\ UNCHANGED jobs
    /\ UNCHANGED <<gate, authToken, user, isAuthenticated, href, issued, coordinator>>

\* checkAuth: the first getCurrentUser() has returned
CheckAuthFirstUser(t) ==
    /\ \E k \in CheckKinds : Resumes(t, k, "me1")
    /\ GetCurrentUserEffect(req[t].res)
    /\ authToken' = authToken
    /\ IF GetCurrentUserSucceeds(req[t].res)
       THEN CheckAuthReturns(t, TRUE)
       ELSE /\ Call(t, op[t].kind, "refresh", RefreshEp, authToken)
            /\ UNCHANGED isLoading
    /\ jobs' = Tail(jobs)
    /\ SetIsChecking(t)
    /\ UNCHANGED <<href, issued, coordinator>>

\* checkAuth: refreshAuth() has returned
CheckAuthRefreshed(t) ==
    /\ \E k \in CheckKinds : Resumes(t, k, "refresh")
    /\ RefreshAuthEffect(req[t].res)
    /\ IF RefreshAuthSucceeds(req[t].res)
       THEN /\ Call(t, op[t].kind, "me2", MeEp, authToken')
            /\ UNCHANGED isLoading
       ELSE CheckAuthReturns(t, FALSE)
    /\ jobs' = Tail(jobs)
    /\ SetIsChecking(t)
    /\ UNCHANGED <<href, issued, coordinator>>

\* checkAuth: the second getCurrentUser() has returned
CheckAuthSecondUser(t) ==
    /\ \E k \in CheckKinds : Resumes(t, k, "me2")
    /\ GetCurrentUserEffect(req[t].res)
    /\ authToken' = authToken
    /\ CheckAuthReturns(t, GetCurrentUserSucceeds(req[t].res))
    /\ jobs' = Tail(jobs)
    /\ SetIsChecking(t)
    /\ UNCHANGED <<href, issued, coordinator>>

\* initializeAuth: its own getCurrentUser() has returned; finally block
InitializeAuthUser(t) ==
    /\ Resumes(t, "initializeAuth", "user")
    /\ GetCurrentUserEffect(req[t].res)
    /\ isLoading' = FALSE
    /\ Return(t, Returned(TRUE, NoMessage))
    /\ jobs' = Tail(jobs)
    /\ UNCHANGED <<gate, authToken, href, issued, coordinator>>

\* initializeAuth without a token: checkAuth returned at once; finally block
InitializeAuthFinally(t) ==
    /\ jobs # <<>> /\ Head(jobs) = t
    /\ op[t].kind = "initializeAuth" /\ op[t].pc = "finally"
    /\ isLoading' = FALSE
    /\ op' = [op EXCEPT ![t] = [@ EXCEPT !.pc = "done"]]
    /\ jobs' = Tail(jobs)
    /\ UNCHANGED <<gate, authToken, user, isAuthenticated, href, req, issued, coordinator>>

\* setUser(user): isAuthenticated is !!user
SetUser(t, u) ==
    /\ MayStart(t)
    /\ user' = u
    /\ isAuthenticated' = (u # NullUser)
    /\ op' = [op EXCEPT ![t] = [kind |-> "setUser", pc |-> "done", ret |-> NoReturn,
                                fetched |-> FALSE]]
    /\ UNCHANGED <<gate, authToken, isLoading, href, req, jobs, issued, coordinator>>

(* ----------------------- ProtectedRoute: effect ----------------------- *)
\* the dependencies of the guard's effect, as the store has them now
Deps == <<isAuthenticated, isLoading>>

\* the guard is rendered with flags its effect has not run with, and it does
\* not render the redirect: the effect runs
EffectDue ==
    /\ jobs = <<>>
    /\ ~gate.left
    /\ gate.deps # Deps
    /\ View(isAuthenticated, isLoading, gate.isChecking) # "login"

\* verifyAuth: neither authenticated nor loading, a token is stored: checkAuth()
\* goes to the network
GateVerifyAuth(t) ==
    /\ EffectDue
    /\ MayStart(t)
    /\ ~isAuthenticated /\ ~isLoading /\ authToken # 0
    /\ Call(t, "verifyAuth", "me1", MeEp, authToken)
    /\ gate' = [gate EXCEPT !.deps = Deps]
    /\ UNCHANGED <<authToken, session, href, jobs, issued, coordinator>>

\* verifyAuth: checkAuth() is skipped, or returns at once for want of a token;
\* setIsChecking(false)
GateVerifyAuthSettles ==
    /\ EffectDue
    /\ isAuthenticated \/ isLoading \/ authToken = 0
    /\ gate' = [gate EXCEPT !.deps = Deps, !.isChecking = FALSE]
    /\ UNCHANGED <<authToken, session, href, req, op, jobs, issued, coordinator>>

\* the guard is rendered, after its first render, with nothing loading or
\* checking and the session unauthenticated: <Navigate to="/login" />
GateRedirect ==
    /\ jobs = <<>>
    /\ ~gate.left
    /\ gate.deps # <<>>
    /\ View(isAuthenticated, isLoading, gate.isChecking) = "login"
    /\ gate' = [gate EXCEPT !.left = TRUE]
    /\ UNCHANGED <<authToken, session, href, req, op, jobs, issued, coordinator>>

(* --------------------------- specification ---------------------------- *)
InitWith(tasks) ==
    /\ gate = NewGate
    /\ authToken \in {0, 1}
    /\ issued = 1
    /\ isRefreshing = FALSE
    /\ failedQueue = <<>>
    /\ user = NullUser
    /\ isAuthenticated = FALSE
    /\ isLoading = FALSE
    /\ href = 0
    /\ req = [t \in tasks |-> NoRequest]
    /\ op = [t \in tasks |-> Idle]
    /\ jobs = <<>>
    /\ window = NoWindow
    /\ lateArrival = FALSE

\* the steps of one request() invocation
RequestStep(t) ==
    \/ \E reply \in Replies(req[t].ep) : FetchResponse(t, reply)
    \/ \E reply \in Replies(RefreshEp) : RefreshResponse(t, reply)
    \/ AfterRefresh(t)
    \/ \E reply \in Replies(req[t].ep) : RetryResponse(t, reply)
    \/ QueuedResolved(t)
    \/ QueuedRejected(t)
    \/ \E reply \in Replies(req[t].ep) : QueuedResponse(t, reply)

ClientStep(t) == RequestStep(t) \/ RequestDone(t)

\* the HTTP client alone, under page requests
InitHttp == InitWith(1..MaxReq)

NextHttp == \E t \in 1..MaxReq : StartRequest(t) \/ ClientStep(t)

SpecHttp == InitHttp /\ [][NextHttp]_vars

StoreStep(t) ==
    \/ StartLogin(t) \/ LoginSettled(t)
    \/ StartSignup(t) \/ SignupSettled(t)
    \/ StartLogout(t) \/ LogoutSettled(t)
    \/ StartRefreshAuth(t) \/ RefreshAuthSettled(t)
    \/ StartGetCurrentUser(t) \/ GetCurrentUserSettled(t)
    \/ StartCheckAuth(t) \/ StartInitializeAuth(t)
    \/ CheckAuthFirstUser(t) \/ CheckAuthRefreshed(t) \/ CheckAuthSecondUser(t)
    \/ InitializeAuthUser(t) \/ InitializeAuthFinally(t)
    \/ \E u \in {NullUser} \cup {Project(b) : b \in BackendUsers} : SetUser(t, u)

\* the session store and the HTTP client under it
Init == InitWith(1..MaxTask)

Next == \E t \in 1..MaxTask : StartRequest(t) \/ ClientStep(t) \/ StoreStep(t)

Spec == Init /\ [][Next]_vars

\* the store operations that make one backend call, and page requests
NextStore ==
    \E t \in 1..MaxTask :
        \/ StartRequest(t) \/ ClientStep(t)
        \/ StartLogin(t) \/ LoginSettled(t)
        \/ StartLogout(t) \/ LogoutSettled(t)
        \/ StartRefreshAuth(t) \/ RefreshAuthSettled(t)

SpecStore == Init /\ [][NextStore]_vars

\* checkAuth and initializeAuth (the route guards and the application start
\* call them), and page requests
NextCheck ==
    \E t \in 1..MaxTask :
        \/ StartRequest(t) \/ ClientStep(t)
        \/ StartCheckAuth(t) \/ StartInitializeAuth(t)
        \/ CheckAuthFirstUser(t) \/ CheckAuthRefreshed(t) \/ CheckAuthSecondUser(t)
        \/ InitializeAuthUser(t) \/ InitializeAuthFinally(t)

SpecCheck == Init /\ [][NextCheck]_vars

\* the route guard, and initializeAuth at the application start
CheckAuthStep(t) ==
    \/ CheckAuthFirstUser(t) \/ CheckAuthRefreshed(t) \/ CheckAuthSecondUser(t)
    \/ InitializeAuthUser(t) \/ InitializeAuthFinally(t)

\* the replies considered under the guard: an HTTP status each, one user record
GateReplies(endpoint) ==
    {r \in Replies(endpoint) :
        /\ r.st # 0
        /\ r.msg # InvalidCredentials
        /\ r.usr \in {NoBackendUser, [_id |-> "u1", role |-> "admin"]}}

NextGate ==
    \/ GateVerifyAuthSettles
    \/ GateRedirect
    \/ \E t \in 1..MaxTask :
          \/ GateVerifyAuth(t)
          \/ StartInitializeAuth(t)
          \/ CheckAuthStep(t)
          \/ \E reply \in GateReplies(req[t].ep) : FetchResponse(t, reply)
          \/ \E reply \in GateReplies(RefreshEp) : RefreshResponse(t, reply)
          \/ AfterRefresh(t)
          \/ \E reply \in GateReplies(req[t].ep) : RetryResponse(t, reply)
          \/ QueuedResolved(t)
          \/ QueuedRejected(t)
          \/ \E reply \in GateReplies(req[t].ep) : QueuedResponse(t, reply)

SpecGate == Init /\ [][NextGate]_vars

\* getCurrentUser, next to login and page requests
NextUser ==
    \E t \in 1..MaxTask :
        \/ StartRequest(t) \/ ClientStep(t)
        \/ StartLogin(t) \/ LoginSettled(t)
        \/ StartGetCurrentUser(t) \/ GetCurrentUserSettled(t)

SpecUser == Init /\ [][NextUser]_vars

\* the operations that toggle isLoading: login, signup, initializeAuth
NextLoading ==
    \E t \in 1..MaxTask :
        \/ StartLogin(t) \/ LoginSettled(t)
        \/ StartSignup(t) \/ SignupSettled(t)
        \/ StartInitializeAuth(t)
        \/ CheckAuthStep(t)
        \/ RequestStep(t)

SpecLoading == Init /\ [][NextLoading]_vars

\* login alone, under every message the backend may put in an error reply: up
\* to MaxPhrases of the phrases below, in any order
BackendPhrases ==
    {"User does not exist", "Invalid user credentials", "Account is deactivated",
     "Too many requests", "Internal server error"}

BackendMessages ==
    UNION {{m \in [1..n -> BackendPhrases] : \A i, j \in 1..n : m[i] = m[j] => i = j} :
            n \in 1..MaxPhrases}

LoginReplies ==
    Replies(LoginEp)
    \cup {[st |-> st, msg |-> m, usr |-> NoBackendUser, hasTok |-> FALSE] :
            st \in {401, 500}, m \in BackendMessages}

NextLogin ==
    \E t \in 1..MaxTask :
        \/ StartLogin(t)
        \/ \E reply \in LoginReplies : FetchResponse(t, reply)
        \/ LoginSettled(t)

SpecLogin == Init /\ [][NextLogin]_vars

\* a burst: MaxReq page requests are in flight, none answered yet, the
\* coordinator Idle, and the first reply to each of them is a 401
InitBurst ==
    /\ gate = NewGate
    /\ authToken = 1
    /\ issued = 1
    /\ isRefreshing = FALSE
    /\ failedQueue = <<>>
    /\ user = NullUser
    /\ isAuthenticated = FALSE
    /\ isLoading = FALSE
    /\ href = 0
    /\ req = [t \in 1..MaxReq |-> NewRequest(ProductsEp, 1)]
    /\ op = [t \in 1..MaxReq |-> [kind |-> "request", pc |-> "call", ret |-> NoReturn,
                                   fetched |-> TRUE]]
    /\ jobs = <<>>
    /\ window = NoWindow
    /\ lateArrival = FALSE

NextBurst ==
    \E t \in 1..MaxReq :
        \/ \E reply \in {r \in Replies(req[t].ep) : r.st = 401} : FetchResponse(t, reply)
        \/ \E reply \in Replies(RefreshEp) : RefreshResponse(t, reply)
        \/ AfterRefresh(t)
        \/ \E reply \in Replies(req[t].ep) : RetryResponse(t, reply)
        \/ QueuedResolved(t)
        \/ QueuedRejected(t)
        \/ \E reply \in Replies(req[t].ep) : QueuedResponse(t, reply)
        \/ RequestDone(t)

SpecBurst == InitBurst /\ [][NextBurst]_vars

(* ------------------------------- claims ------------------------------- *)
\* the calls to the refresh endpoint that are in flight: the nested
\* refreshToken() of a request that owns a refresh, and the refreshToken() of
\* refreshAuth (alone or as a step of checkAuth)
RefreshCallsInFlight ==
    {t \in Task : \/ req[t].pc = "refreshing"
                  \/ req[t].ep = RefreshEp /\ req[t].pc = "fetch"}

\* C1: at any time at most one call to the refresh endpoint is in flight,
\* counting the refresh request() starts on a 401 and the one refreshAuth() issues
C1_AtMostOneRefreshInFlight == Cardinality(RefreshCallsInFlight) <= 1

Done(t) == op[t].pc = "done"

\* the tasks of a burst whose first reply has arrived
Answered == {t \in Task : req[t].pc # "fetch"}

\* C2 as stated: a burst of 401s causes exactly one refresh call, whatever the
\* order of the replies
C2_OneRefreshPerBurst == (\A t \in Task : Done(t)) => window.id = 1

\* C2, amended: a burst of 401s causes exactly one refresh call as long as no
\* 401 of the burst arrives after the owner of the refresh has left its refresh block
C2_OneRefreshWhileOpen == (Answered # {} /\ ~lateArrival) => window.id = 1

C2_Witness ==
    /\ \A t \in Task : Done(t)
    /\ ~lateArrival
    /\ window.id = 1
    /\ Len(window.queued) = MaxReq - 1

\* the re-sends a refresh that returned a token owes: its owner first, then the
\* queued requests in queue order, each with the new token
OwedResends(w) ==
    [i \in 1..(Len(w.queued) + 1) |->
        <<IF i = 1 THEN w.owner ELSE w.queued[i - 1], w.tok>>]

\* C3: when a refresh started by a 401 returned a token, the owner and every
\* request queued behind it have been re-sent exactly once with that token, the
\* queued ones in queue order
C3_ResentOnceInOrder ==
    (window.outcome = "token" /\ ~window.open) => window.resent = OwedResends(window)

\* C4: when the refresh call started by a 401 fails, the token is removed, every
\* queued continuation is rejected with the refresh error, one redirect is made,
\* the coordinator is Idle and the owner fails with the refresh error
C4_RefreshFailure ==
    [][\A t \in Task :
        /\ (req[t].pc = "refreshed" /\ ~req[t].refreshRes.ok /\ req'[t].pc # "refreshed")
           => /\ authToken' = 0
              /\ href' = href + 1
              /\ ~isRefreshing'
              /\ failedQueue' = <<>>
              /\ req'[t].pc = "settled"
              /\ req'[t].res = Failure(req[t].refreshRes.err)
              /\ \A i \in 1..Len(failedQueue) :
                   /\ req'[failedQueue[i]].pc = "rejected"
                   /\ req'[failedQueue[i]].res = Failure(req[t].refreshRes.err)
        \* the rejected continuations pass the error on and redirect no more
        /\ (req[t].pc = "rejected" /\ req'[t].pc # "rejected")
           => /\ href' = href
              /\ req'[t].pc = "settled"
              /\ req'[t].res = req[t].res]_vars

C4_Witness ==
    /\ window.outcome = "error"
    /\ Len(window.queued) = 2
    /\ \A i \in 1..Len(window.queued) : req[window.queued[i]].pc = "rejected"
    /\ href = 1
    /\ authToken = 0
    /\ ~isRefreshing

\* C5: the pending queue is empty whenever the coordinator is Idle
C5_QueueEmptyWhenIdle == ~isRefreshing => failedQueue = <<>>

\* no network call is in flight and no continuation is ready to run
Quiescent ==
    /\ jobs = <<>>
    /\ \A t \in Task : req[t].pc \notin {"fetch", "refreshing", "retry", "qfetch"}

\* C6: every queued continuation is eventually resolved or rejected: once every
\* network call has completed, no request is still waiting in the queue
C6_NoRequestLeftWaiting == Quiescent => \A t \in Task : req[t].pc # "queued"

\* the failure request() reports for a 401 reply it does not route into the protocol
Plain401(reply) ==
    Failure([ep |-> "", at |-> "L114",
             msg |-> IF reply.msg # NoMessage THEN reply.msg
                     ELSE <<"HTTP error! status: 401">>])

\* C7: a 401 reply to the login or the refresh-token endpoint starts no refresh,
\* queues nothing, leaves token, redirect, isRefreshing and queue alone, and
\* fails with the backend message or the generic 401 message
C7_ExemptEndpoints ==
    [][\A t \in Task :
        /\ (/\ req[t].pc = "fetch"
            /\ req[t].ep \in {LoginEp, RefreshEp}
            /\ req'[t].pc # "fetch"
            /\ req'[t].reply.st = 401)
           => /\ UNCHANGED <<isRefreshing, failedQueue, authToken, href, window>>
              /\ req'[t].pc = "settled"
              /\ [req'[t].res EXCEPT !.err.ep = ""] = Plain401(req'[t].reply)
        /\ (/\ req[t].pc = "refreshing"
            /\ req'[t].pc # "refreshing"
            /\ req'[t].refreshReply.st = 401)
           => /\ UNCHANGED <<isRefreshing, failedQueue, authToken, href, window>>
              /\ req'[t].pc = "refreshed"
              /\ [req'[t].refreshRes EXCEPT !.err.ep = ""]
                    = Plain401(req'[t].refreshReply)]_vars

C7_Witness ==
    \E t \in Task :
        /\ req[t].ep = LoginEp
        /\ req[t].pc = "settled"
        /\ req[t].reply.st = 401
        /\ isRefreshing

\* C8: once a refresh has returned a new token, the outcome of the retry of
\* the original request neither removes the token nor redirects
C8_RetryLeavesTokenAlone ==
    [][\A t \in Task :
        (req[t].pc = "retry" /\ req'[t].pc # "retry")
        => (authToken' = authToken /\ href' = href)]_vars

\* C9: when a logout() call completes, the token is absent and the session is
\* reset, whatever the outcome of the backend logout call
C9_LogoutAlwaysCleans ==
    [][\A t \in Task :
        (op[t].kind = "logout" /\ ~Done(t) /\ Done(t)')
        => (authToken' = 0 /\ user' = NullUser /\ ~isAuthenticated')]_vars

\* a logout whose backend call went through a failed refresh, after a login
C9_Witness ==
    \E t, u \in Task :
        /\ op[u].kind = "login" /\ Done(u) /\ op[u].ret.success
        /\ op[t].kind = "logout" /\ Done(t) /\ ~op[t].ret.success
        /\ href = 1
        /\ authToken = 0 /\ user = NullUser /\ ~isAuthenticated

\* C10: refreshAuth() persists the new token and reports success, and on any
\* failure clears the token, resets the session and reports failure
C10_RefreshAuthOutcome ==
    [][\A t \in Task :
        (op[t].kind = "refreshAuth" /\ ~Done(t) /\ Done(t)')
        => IF op'[t].ret.success
           THEN authToken' = req[t].res.tok /\ authToken' # 0
           ELSE authToken' = 0 /\ user' = NullUser /\ ~isAuthenticated']_vars

\* C11: every irrecoverable refresh failure resets the session (user absent,
\* isAuthenticated false): the failure of the refresh request() started on a
\* 401, which removes the token, and the failure of the refresh refreshAuth()
\* issued; no state follows in which the failure has removed the token and the
\* session still reports isAuthenticated
C11_SessionResetOnRefreshFailure ==
    [][\A t \in Task :
        /\ (req[t].pc = "refreshed" /\ ~req[t].refreshRes.ok /\ req'[t].pc # "refreshed")
           => (authToken' = 0 /\ user' = NullUser /\ ~isAuthenticated')
        /\ (op[t].kind = "refreshAuth" /\ ~Done(t) /\ Done(t)' /\ ~req[t].res.ok)
           => (authToken' = 0 /\ user' = NullUser /\ ~isAuthenticated')]_vars

\* C12: checkAuth() called while no token is stored makes no network call,
\* returns {isAuthenticated: false} and leaves the session, the token store,
\* isRefreshing and the pending queue as they are
C12_CheckAuthWithoutToken ==
    [][\A t \in Task :
        (op[t].kind = "idle" /\ op'[t].kind = "checkAuth" /\ authToken = 0)
        => /\ Done(t)'
           /\ ~op'[t].ret.success /\ ~op'[t].ret.threw
           /\ ~op'[t].fetched
           /\ req' = req
           /\ UNCHANGED <<authToken, user, isAuthenticated, isLoading, isRefreshing,
                          failedQueue, href>>]_vars

\* a token-less checkAuth() has returned while a refresh is in flight
C12_Witness ==
    \E t \in Task :
        /\ op[t].kind = "checkAuth" /\ Done(t) /\ ~op[t].fetched
        /\ authToken = 0
        /\ isRefreshing

\* C13: login() whose reply carries a user and an access token sets
\* isAuthenticated, stores the projected profile (role "user" when the record has
\* none), persists that token and returns success; when the reply lacks a user
\* or the call fails it returns {success: false, error} and leaves user,
\* isAuthenticated and the stored token as they were
C13_Login ==
    [][\A t \in Task :
        \* until it completes the call changes neither the session nor the token
        /\ (op'[t].kind = "login" /\ ~Done(t)' /\ (op'[t] # op[t] \/ req'[t] # req[t]))
           => UNCHANGED <<user, isAuthenticated, authToken>>
        /\ (op[t].kind = "login" /\ ~Done(t) /\ Done(t)')
        => IF req[t].reply.st = 200 /\ req[t].reply.usr # NoBackendUser
           THEN /\ op'[t].ret.success
                /\ isAuthenticated'
                /\ user' = [id |-> req[t].reply.usr._id,
                            role |-> IF req[t].reply.usr.role = "" THEN "user"
                                     ELSE req[t].reply.usr.role]
                /\ IF req[t].reply.hasTok
                   THEN authToken' = req[t].res.tok /\ authToken' # 0
                   ELSE authToken' = authToken
           ELSE /\ ~op'[t].ret.success
                /\ op'[t].ret.error # NoMessage
                /\ UNCHANGED <<user, isAuthenticated, authToken>>]_vars

\* a login that stored a user with the default role and a new token, and a
\* login that failed for a reply without user
C13_Witness ==
    \E t, u \in Task :
        /\ op[t].kind = "login" /\ Done(t) /\ op[t].ret.success
        /\ op[u].kind = "login" /\ Done(u) /\ op[u].ret.error = <<"Login failed">>
        /\ isAuthenticated
        /\ user = [id |-> "u1", role |-> "user"]
        /\ authToken = issued /\ issued # 1

\* the operations of the session store
StoreKinds ==
    {"login", "signup", "logout", "refreshAuth", "getCurrentUser", "checkAuth",
     "initializeAuth"}

LoadingKinds == {"login", "signup", "initializeAuth"}

\* C15: isLoading is true at every moment between the start of a login() and
\* its completion, whatever signup() and initializeAuth() calls run and complete
\* meanwhile, and false once it has completed with no loading operation in flight
C15_LoadingDuringLogin ==
    /\ (\E t \in Task : op[t].kind = "login" /\ ~Done(t)) => isLoading
    /\ ((\E t \in Task : op[t].kind = "login" /\ Done(t))
          /\ (\A t \in Task : op[t].kind \in LoadingKinds => Done(t)))
       => ~isLoading

\* a checkAuth() that the guard's effect started has not returned yet
GateChecking == \E t \in Task : op[t].kind = "verifyAuth" /\ ~Done(t)

\* C16: while isLoading is true or a checkAuth() the guard started has not
\* settled, the guard shows the placeholder and does not redirect; it redirects
\* to the login surface only once the check has settled with the session
\* unauthenticated, also when isAuthenticated or isLoading change while the
\* guard's check is in flight
C16_GateWaitsForCheck ==
    [][/\ (~gate'.left /\ (isLoading' \/ GateChecking'))
          => View(isAuthenticated', isLoading', gate'.isChecking) = "placeholder"
       /\ (gate'.left /\ ~gate.left)
          => (~isLoading /\ ~GateChecking /\ ~isAuthenticated)]_vars

\* the phrases login looks for, in the order of its tests, each with the
\* message shown to the user
LoginPhrases ==
    << <<"User does not exist", "User not found. Please check your credentials.">>,
       <<"Invalid user credentials", "Invalid username or password.">>,
       <<"Account is deactivated",
         "Your account has been deactivated. Please contact admin.">>,
       <<"Too many requests", "Too many login attempts. Please try again later.">> >>

Matching(msg) ==
    {i \in 1..Len(LoginPhrases) : \E j \in 1..Len(msg) : msg[j] = LoginPhrases[i][1]}

Translated(msg) ==
    IF Matching(msg) = {} THEN msg
    ELSE <<LoginPhrases[CHOOSE i \in Matching(msg) : \A k \in Matching(msg) : i <= k][2]>>

\* C17: a login that fails with a backend message returns the user-facing
\* message of the first of the four phrases, in the order of the tests, that the
\* message contains ("Invalid user credentials" gives "Invalid username or
\* password."), and the backend message itself when it contains none
C17_LoginErrorTranslation ==
    [][\A t \in Task :
        (/\ op[t].kind = "login" /\ ~Done(t) /\ Done(t)'
         /\ req[t].reply.st \in {401, 500}
         /\ req[t].reply.msg # NoMessage)
        => /\ ~op'[t].ret.success
           /\ op'[t].ret.error = Translated(req[t].reply.msg)]_vars

\* a login whose message was translated and one whose message passed through
C17_Witness ==
    \E t, u \in Task :
        /\ op[t].kind = "login" /\ Done(t)
        /\ op[t].ret.error = <<"Invalid username or password.">>
        /\ op[u].kind = "login" /\ Done(u)
        /\ op[u].ret.error = <<"Internal server error">>

\* C18: one checkAuth() with a stored token causes at most one call to the
\* refresh endpoint, counting the refresh request() starts when a current-user
\* call gets 401 and the refreshAuth() step of checkAuth: a checkAuth that has
\* reached its refreshAuth() step owns no refresh started by request()
C18_OneRefreshPerCheckAuth ==
    \A t \in Task :
        (op[t].kind = "checkAuth" /\ op[t].pc \in {"refresh", "me2"})
        => window.owner # t

\* C19: a request that was queued during a refresh never calls the refresh
\* endpoint itself: the reply to its re-send, a 401 included, only settles that
\* request; the stored token, isRefreshing, the queue, the redirect and the
\* other requests are left as they are and no refresh is started
C19_QueuedRetryIsLocal ==
    [][\A t \in Task :
        (req[t].pc = "qfetch" /\ req'[t].pc # "qfetch")
        => /\ req'[t].pc = "settled"
           /\ UNCHANGED <<authToken, isRefreshing, failedQueue, href, op>>
           /\ window'.id = window.id
           /\ \A u \in Task \ {t} : req'[u] = req[u]]_vars

\* the re-send of a queued request was answered 401 and the request has failed
\* with it, the new token still stored and no redirect made
C19_Witness ==
    \E t \in Task :
        /\ req[t].pc = "settled"
        /\ req[t].res.err = [ep |-> req[t].ep, at |-> "L100",
                             msg |-> <<"HTTP error! status: 401">>]
        /\ window.queued = <<t>>
        /\ authToken = window.tok /\ authToken # 0
        /\ href = 0

\* C20: a getCurrentUser() whose call fails or whose reply lacks a user returns
\* {success: false} and leaves user, isAuthenticated and isLoading as they were;
\* one that succeeds stores the projected user and sets isAuthenticated
C20_GetCurrentUserFrame ==
    [][\A t \in Task :
        /\ (/\ op'[t].kind = "getCurrentUser" /\ ~Done(t)'
            /\ (op'[t] # op[t] \/ req'[t] # req[t]))
           => UNCHANGED <<user, isAuthenticated, isLoading>>
        /\ (op[t].kind = "getCurrentUser" /\ ~Done(t) /\ Done(t)')
           => IF req[t].res.ok /\ req[t].res.usr # NoBackendUser
              THEN /\ op'[t].ret.success
                   /\ user' = [id |-> req[t].res.usr._id,
                               role |-> IF req[t].res.usr.role = "" THEN "user"
                                        ELSE req[t].res.usr.role]
                   /\ isAuthenticated'
                   /\ isLoading' = isLoading
              ELSE /\ ~op'[t].ret.success /\ ~op'[t].ret.threw
                   /\ UNCHANGED <<user, isAuthenticated, isLoading>>]_vars

\* a getCurrentUser() has failed after a login: the session is still the one
\* the login stored
C20_Witness ==
    \E t, u \in Task :
        /\ op[t].kind = "getCurrentUser" /\ Done(t) /\ ~op[t].ret.success
        /\ op[u].kind = "login" /\ Done(u) /\ op[u].ret.success
        /\ isAuthenticated /\ user # NullUser

\* C21: once logout() has completed, and as long as no call is started after
\* it, the token stays absent and the session unauthenticated: no operation
\* that was in flight when logout ran (a refresh started by a 401 in request(),
\* refreshAuth(), login()) persists a token or sets isAuthenticated afterwards
C21_LogoutIsFinal ==
    \A t \in Task :
        (/\ op[t].kind = "logout" /\ Done(t)
         /\ \A u \in Task : u > t => op[u].kind = "idle")
        => (authToken = 0 /\ ~isAuthenticated)

====
